---- MODULE Spec2Model ----
(***************************************************************************)
(* The article renderer of components/pages/BlogDetail.tsx: renderContent  *)
(* (block splitter and classifier) and renderInlineMarkdown (inline span   *)
(* formatter).  A text is a sequence of one-character strings; positions   *)
(* are 1-based in the helpers and 0-based (as in JavaScript) in the index  *)
(* field of a match and in currentIndex.  A value that a definition uses   *)
(* more than once is passed on as a parameter of a helper, so that every   *)
(* definition is evaluated at one place.                                   *)
(*                                                                         *)
(* Further sections: the hash router of App.tsx, the public pages          *)
(* (PublicPortfolio, BlogDetail loads), the admin CRUD functions of        *)
(* services/adminService.ts, and increment_portfolio_views() of            *)
(* supabase_migration.sql.  Each group of variables has its own next-state *)
(* relation and specification.                                             *)
(***************************************************************************)
EXTENDS Integers, Sequences, FiniteSets, TLC

\* the renderer: the text handed to the call, the position of the call, what
\* renderContent and renderInlineMarkdown returned last, and the calls made so far
VARIABLES content, pc, blocks, spans, log

\* App (the hash router): the three pieces of React state, window.location.hash,
\* a hashchange event not yet handled, the auth check still running, the queue
\* of zero-delay timers, and the element that renderRoute returned last
VARIABLES authLoading, isAuthenticated, currentPath, hash, hashEvent, checking,
          timers, view

\* the public pages: the published flag of each row of blog_posts, the blogs
\* state of PublicPortfolio with its requests in flight, and the props and
\* state of BlogDetail with its loads in flight
VARIABLES db, blogs, listPending, blogId, blog, loading, error, loads, requested

\* the services: the ids of the rows of selected_work and the last call of an
\* admin CRUD function with its outcome; the rows of portfolio_analytics, the
\* position of each call of increment_portfolio_views(), and the view count
\* read before the calls
VARIABLES projects, lastCall, analytics, incr, viewsBefore

rendererVars == <<content, pc, blocks, spans, log>>

routerVars ==
  <<authLoading, isAuthenticated, currentPath, hash, hashEvent, checking, timers, view>>

pageVars == <<db, blogs, listPending, blogId, blog, loading, error, loads, requested>>

serviceVars == <<projects, lastCall, analytics, incr, viewsBefore>>

vars == <<rendererVars, routerVars, pageVars, serviceVars>>

(* ------------------------------ bounds ------------------------------- *)

MaxDocLen == 5
MaxHeadingLen == 6
MaxListLen == 8
MaxOrderedLen == 6
MaxInlineLen == 6
\* calls of the renderer in one run of the page
MaxRuns == 3
\* zero-delay timers pending at once
MaxTimers == 3
\* loadBlog calls of one mounted BlogDetail
MaxRequests == 2
\* rows of selected_work
MaxProjects == 3
\* concurrent calls of increment_portfolio_views()
MaxCalls == 3
\* length of the texts scanned exhaustively, and constructs joined into a text
MaxScanLen == 5
MaxPieces == 3

(* --------------------------- text helpers ---------------------------- *)

SeqsUpTo(S, n) == UNION {[1..k -> S] : k \in 0..n}

Min(a, b) == IF a <= b THEN a ELSE b

SetMin(S) == CHOOSE x \in S : \A y \in S : x <= y

SetMax(S) == CHOOSE x \in S : \A y \in S : x >= y

\* \s of a JavaScript regular expression (the members that occur in the inputs)
Ws == {" ", "\n", "\t", "\r"}

\* what . of a JavaScript regular expression (no s flag) refuses
LineTerminators == {"\n", "\r"}

\* \d
Digits == {"0", "1", "2", "3", "4", "5", "6", "7", "8", "9"}

\* [-*+]
ListMarkers == {"-", "*", "+"}

\* the character U+0060 (grave accent), which a string literal here cannot hold
Backtick == "BACKTICK"

\* mutant: the piece starts one character late
substringShifted(s, from, to) == SubSeq(s, from + 2, to)

\* String.prototype.substring(from, to) with 0-based from <= to
substring(s, from, to) == SubSeq(s, from + 1, to)

\* the length of a run that starts at the 1-based position i of s and ends
\* before the first of the positions in stops
RunBefore(stops, s, i) ==
  IF stops = {} THEN Len(s) - i + 1 ELSE SetMin(stops) - i

\* greedy [C]* at position i: the longest run of characters of the class C
RunIn(C, s, i) == RunBefore({j \in i..Len(s) : s[j] \notin C}, s, i)

\* greedy [^C]* at position i
RunNotIn(C, s, i) == RunBefore({j \in i..Len(s) : s[j] \in C}, s, i)

Between(s, keep) ==
  IF keep = {} THEN <<>> ELSE SubSeq(s, SetMin(keep), SetMax(keep))

\* mutant: no whitespace is removed
trimNothing(s) == s

\* String.prototype.trim
trim(s) == Between(s, {i \in 1..Len(s) : s[i] \notin Ws})

(* ----------------------- trimmedPara.split('\n') --------------------- *)

RECURSIVE SplitLinesFrom(_, _, _)
SplitLinesFrom(s, p, q) ==
  IF q > Len(s) THEN <<SubSeq(s, p, Len(s))>>
  ELSE IF s[q] = "\n" THEN <<SubSeq(s, p, q - 1)>> \o SplitLinesFrom(s, q + 1, q + 1)
  ELSE SplitLinesFrom(s, p, q + 1)

splitLines(s) == SplitLinesFrom(s, 1, 1)

(* ------------------- content.split(/\n\s*\n/) ------------------------ *)

LastOrNone(S) == IF S = {} THEN 0 ELSE SetMax(S)

\* The 1-based position of the last character of the match of /\n\s*\n/ that
\* starts at position q, or 0 when there is none: \s* is greedy and backtracks
\* to the last newline of the whitespace run.
SeparatorEnd(s, q) ==
  IF q > Len(s) \/ s[q] # "\n" THEN 0
  ELSE LastOrNone({j \in (q + 1)..(q + RunIn(Ws, s, q + 1)) : s[j] = "\n"})

RECURSIVE SplitFrom(_, _, _)
RECURSIVE SplitAt(_, _, _, _)
\* String.prototype.split: p is the start of the current piece, q the position
\* at which the separator is tried next, e the end of the separator found there
SplitFrom(s, p, q) ==
  IF q > Len(s) THEN <<SubSeq(s, p, Len(s))>>
  ELSE SplitAt(s, p, q, SeparatorEnd(s, q))

SplitAt(s, p, q, e) ==
  IF e = 0 THEN SplitFrom(s, p, q + 1)
  ELSE <<SubSeq(s, p, q - 1)>> \o SplitFrom(s, e + 1, e + 1)

\* mutant: the separator pattern without its second newline, /\n/
paragraphsOnEveryNewline(s) == splitLines(s)

paragraphs(s) == SplitFrom(s, 1, 1)

(* ---------------- renderInlineMarkdown: the four patterns ------------- *)

NoMatch == [index |-> -1, length |-> 0, type |-> "none", content |-> <<>>, url |-> <<>>]

\* the lengths k >= 1 of a content that starts after the opening delimiter of
\* width w at position i, holds no line terminator, and is followed by the
\* closing delimiter
ClosingAt(t, i, w) ==
  {k \in 1..(Len(t) - i - 2 * w + 1) :
     /\ \A j \in (i + w)..(i + w + k - 1) : t[j] \notin LineTerminators
     /\ \A j \in (i + w + k)..(i + 2 * w + k - 1) : t[j] = t[i]}

DelimitedMatch(t, i, w, type, k) ==
  [index |-> i - 1, length |-> k + 2 * w, type |-> type,
   content |-> SubSeq(t, i + w, i + w + k - 1), url |-> <<>>]

\* (.+?) is lazy: the shortest content wins
DelimitedShortest(t, i, w, type, ks) ==
  IF ks = {} THEN NoMatch ELSE DelimitedMatch(t, i, w, type, SetMin(ks))

\* /(\*\*|__)(.+?)\1/ (w = 2) and /(\*|_)(.+?)\1/ (w = 1) tried at the 1-based
\* position i
DelimitedAt(t, i, w, type) ==
  IF i + w - 1 <= Len(t) /\ t[i] \in {"*", "_"}
     /\ \A j \in i..(i + w - 1) : t[j] = t[i]
  THEN DelimitedShortest(t, i, w, type, ClosingAt(t, i, w))
  ELSE NoMatch

boldPattern(t, i) == DelimitedAt(t, i, 2, "bold")

italicPattern(t, i) == DelimitedAt(t, i, 1, "italic")

LinkUrl(t, i, a, b) ==
  IF b >= 1 /\ i + a + 3 + b <= Len(t) /\ t[i + a + 3 + b] = ")"
  THEN [index |-> i - 1, length |-> a + b + 4, type |-> "link",
        content |-> SubSeq(t, i + 1, i + a),
        url |-> SubSeq(t, i + a + 3, i + a + 2 + b)]
  ELSE NoMatch

LinkText(t, i, a) ==
  IF a >= 1 /\ i + a + 2 <= Len(t) /\ t[i + a + 1] = "]" /\ t[i + a + 2] = "("
  THEN LinkUrl(t, i, a, RunNotIn({")"}, t, i + a + 3))
  ELSE NoMatch

\* /\[([^\]]+)\]\(([^)]+)\)/ tried at position i: both classes are greedy and
\* a shorter run is followed by a character of the class, so only the longest
\* run (a characters of text, b of url) can be followed by the closing character
linkPattern(t, i) ==
  IF i <= Len(t) /\ t[i] = "["
  THEN LinkText(t, i, RunNotIn({"]"}, t, i + 1))
  ELSE NoMatch

CodeText(t, i, a) ==
  IF a >= 1 /\ i + a + 1 <= Len(t) /\ t[i + a + 1] = Backtick
  THEN [index |-> i - 1, length |-> a + 2, type |-> "code",
        content |-> SubSeq(t, i + 1, i + a), url |-> <<>>]
  ELSE NoMatch

\* codePattern: a backtick, one or more characters other than a backtick
\* (greedy), a backtick, tried at position i
codePattern(t, i) ==
  IF i <= Len(t) /\ t[i] = Backtick
  THEN CodeText(t, i, RunNotIn({Backtick}, t, i + 1))
  ELSE NoMatch

MatchAt(type, t, i) ==
  CASE type = "bold" -> boldPattern(t, i)
    [] type = "italic" -> italicPattern(t, i)
    [] type = "link" -> linkPattern(t, i)
    [] OTHER -> codePattern(t, i)

Leftmost(found) == CHOOSE x \in found : \A y \in found : x.index <= y.index

RECURSIVE execAll(_, _, _)
RECURSIVE execFound(_, _, _)
RECURSIVE execResume(_, _, _)
\* while ((match = pattern.exec(text)) !== null) allMatches.push(...): a global
\* pattern finds the leftmost match at or after lastIndex (0-based) and leaves
\* lastIndex just past it
execAll(type, t, lastIndex) ==
  execFound(type, t, {MatchAt(type, t, i) : i \in (lastIndex + 1)..Len(t)} \ {NoMatch})

execFound(type, t, found) ==
  IF found = {} THEN <<>> ELSE execResume(type, t, Leftmost(found))

\* mutant: the scan resumes one character after the start of the match
execResumeAfterStart(type, t, m) == <<m>> \o execAll(type, t, m.index + 1)

\* mutant: the scan resumes on the last character of the match
execResumeInside(type, t, m) == <<m>> \o execAll(type, t, m.index + m.length - 1)

execResume(type, t, m) == <<m>> \o execAll(type, t, m.index + m.length)

RECURSIVE execEach(_, _)
execEach(types, t) ==
  IF types = <<>> THEN <<>>
  ELSE execAll(Head(types), t, 0) \o execEach(Tail(types), t)

\* allMatches before the sort: the four loops push bold, italic, link, code
pooledMatches(t) == execEach(<<"bold", "italic", "link", "code">>, t)

InsertByIndex(front, last) ==
  SelectSeq(front, LAMBDA m : m.index <= last.index)
    \o <<last>> \o SelectSeq(front, LAMBDA m : m.index > last.index)

\* mutant: the pool is walked in push order
sortByIndexSkipped(ms) == ms

RECURSIVE sortByIndex(_)
\* allMatches.sort((a, b) => a.index - b.index): Array.prototype.sort is stable,
\* so matches with the same index keep their push order
sortByIndex(ms) ==
  IF ms = <<>> THEN <<>>
  ELSE InsertByIndex(sortByIndex(SubSeq(ms, 1, Len(ms) - 1)), ms[Len(ms)])

allMatches(t) == sortByIndex(pooledMatches(t))

PlainText(s) == [type |-> "text", content |-> s, url |-> <<>>]

\* the element pushed for a match (strong, em, a, code)
Formatted(m) == [type |-> m.type, content |-> m.content, url |-> m.url]

\* mutant: a match that starts before the cursor is dropped
walkStepSkipOverlap(t, st, m) ==
  IF m.index < st.currentIndex THEN st
  ELSE [parts |-> (IF m.index > st.currentIndex
                   THEN Append(st.parts, PlainText(substring(t, st.currentIndex, m.index)))
                   ELSE st.parts) \o <<Formatted(m)>>,
        currentIndex |-> m.index + m.length]

\* mutant: the cursor is not moved past the match
walkStepNoAdvance(t, st, m) ==
  [parts |-> (IF m.index > st.currentIndex
              THEN Append(st.parts, PlainText(substring(t, st.currentIndex, m.index)))
              ELSE st.parts) \o <<Formatted(m)>>,
   currentIndex |-> st.currentIndex]

\* one iteration of allMatches.forEach: the text before the match, if the
\* match starts after currentIndex, then the formatted element; currentIndex
\* becomes the end of the match
walkStep(t, st, m) ==
  [parts |-> (IF m.index > st.currentIndex
              THEN Append(st.parts, PlainText(substring(t, st.currentIndex, m.index)))
              ELSE st.parts) \o <<Formatted(m)>>,
   currentIndex |-> m.index + m.length]

RECURSIVE walk(_, _, _, _)
walk(t, ms, k, st) ==
  IF k > Len(ms) THEN st ELSE walk(t, ms, k + 1, walkStep(t, st, ms[k]))

\* the remaining text after the last match
withRemaining(t, st) ==
  IF st.currentIndex < Len(t)
  THEN Append(st.parts, PlainText(substring(t, st.currentIndex, Len(t))))
  ELSE st.parts

\* return parts.length > 0 ? <>{parts}</> : text
partsOrText(t, parts) == IF Len(parts) > 0 THEN parts ELSE <<PlainText(t)>>

renderInlineMarkdown(t) ==
  partsOrText(t, withRemaining(t,
    walk(t, allMatches(t), 1, [parts |-> <<>>, currentIndex |-> 0])))

(* ------------------------- renderContent ----------------------------- *)

\* trimmedPara.match(/^(#+)\s+(.+)$/): h hashes, j whitespace characters, then
\* at least one character and no line terminator up to the end of the string
\* (no m flag: $ is the end of the string)
headingSplits(s) ==
  {hj \in (1..Len(s)) \X (1..Len(s)) :
     /\ hj[1] <= RunIn({"#"}, s, 1)
     /\ hj[2] <= RunIn(Ws, s, hj[1] + 1)
     /\ hj[1] + hj[2] < Len(s)
     /\ \A p \in (hj[1] + hj[2] + 1)..Len(s) : s[p] \notin LineTerminators}

NoHeading == [matched |-> FALSE, hashes |-> 0, text |-> <<>>]

HeadingGroups(s, h, j) ==
  [matched |-> TRUE, hashes |-> h, text |-> SubSeq(s, h + j + 1, Len(s))]

HeadingWithHashes(s, all, h) ==
  HeadingGroups(s, h, SetMax({hj[2] : hj \in {x \in all : x[1] = h}}))

\* each quantifier is greedy: the match found first has the largest h, then
\* the largest j
HeadingGreedy(s, all) ==
  IF all = {} THEN NoHeading
  ELSE HeadingWithHashes(s, all, SetMax({hj[1] : hj \in all}))

headingMatch(s) == HeadingGreedy(s, headingSplits(s))

\* s.match(/^[-*+]\s/)
bulletTest(s) == Len(s) >= 2 /\ s[1] \in ListMarkers /\ s[2] \in Ws

\* mutant: the marker is never removed
bulletStripNothing(s) == s

\* s.replace(/^[-*+]\s+/, '')
bulletStrip(s) ==
  IF bulletTest(s) THEN SubSeq(s, 2 + RunIn(Ws, s, 2), Len(s)) ELSE s

NumberAfter(s, d) ==
  d >= 1 /\ d + 2 <= Len(s) /\ s[d + 1] = "." /\ s[d + 2] \in Ws

\* s.match(/^\d+\.\s/)
numberTest(s) == NumberAfter(s, RunIn(Digits, s, 1))

NumberStripFrom(s, d) == SubSeq(s, d + 2 + RunIn(Ws, s, d + 2), Len(s))

\* s.replace(/^\d+\.\s+/, '')
numberStrip(s) ==
  IF numberTest(s) THEN NumberStripFrom(s, RunIn(Digits, s, 1)) ELSE s

\* the filters of the two list branches: the test is applied to the trimmed line
bulletLine(line) == bulletTest(trim(line))

numberLine(line) == numberTest(trim(line))

\* the replace runs on each kept line as split, not on the trimmed line
bulletItems(lines) == [i \in 1..Len(lines) |-> bulletStrip(lines[i])]

numberItems(lines) == [i \in 1..Len(lines) |-> numberStrip(lines[i])]

NullBlock == [kind |-> "null", level |-> 0, texts |-> <<>>, spans |-> <<>>]

\* a node with its texts (the heading or paragraph text, or the list items) and
\* the result of renderInlineMarkdown for each of them
Node(kind, level, texts) ==
  [kind |-> kind, level |-> level, texts |-> texts,
   spans |-> [i \in 1..Len(texts) |-> renderInlineMarkdown(texts[i])]]

\* the branches of the callback of paragraphs.map for a non-empty trimmedPara;
\* match is the result of the heading pattern (NoHeading when it is not tried)
classify(trimmedPara, match) ==
  IF match.matched
  THEN [kind |-> "heading", level |-> Min(match.hashes, 3), texts |-> <<match.text>>]
  ELSE IF bulletTest(trimmedPara)
  THEN [kind |-> "ul", level |-> 0,
        texts |-> bulletItems(SelectSeq(splitLines(trimmedPara), bulletLine))]
  ELSE IF numberTest(trimmedPara)
  THEN [kind |-> "ol", level |-> 0,
        texts |-> numberItems(SelectSeq(splitLines(trimmedPara), numberLine))]
  ELSE [kind |-> "p", level |-> 0, texts |-> <<trimmedPara>>]

NodeOf(c) == Node(c.kind, c.level, c.texts)

renderTrimmed(trimmedPara) ==
  IF trimmedPara = <<>> THEN NullBlock
  ELSE NodeOf(classify(trimmedPara,
         IF trimmedPara[1] = "#" THEN headingMatch(trimmedPara) ELSE NoHeading))

\* the callback of paragraphs.map: null, h1..h3, ul, ol or p
renderPara(para) == renderTrimmed(trim(para))

\* mutant: the nodes come out in reverse order
renderEachReversed(paras) ==
  [i \in 1..Len(paras) |-> renderPara(paras[Len(paras) + 1 - i])]

renderEach(paras) == [i \in 1..Len(paras) |-> renderPara(paras[i])]

\* renderContent(content): one entry per piece of the split, null included
renderContent(s) == renderEach(paragraphs(s))

IsBlock(b) == b.kind # "null"

\* the nodes that reach the page: React renders nothing for null
Rendered(bs) == SelectSeq(bs, IsBlock)

(* --------------------------- state machine --------------------------- *)

\* a finished call: what was called, on what, and what it returned
Call(op, input, out) == [op |-> op, input |-> input, out |-> out]

\* mutant: parts is kept from one call to the next
FormatKeepingParts ==
  /\ pc = "input"
  /\ spans' = spans \o renderInlineMarkdown(content)
  /\ pc' = "formatted"
  /\ log' = Append(log, Call("format", content, spans'))
  /\ UNCHANGED <<content, blocks, routerVars, pageVars, serviceVars>>

\* the article body is rendered by renderContent
Render ==
  /\ pc = "input"
  /\ blocks' = renderContent(content)
  /\ pc' = "rendered"
  /\ log' = Append(log, Call("render", content, blocks'))
  /\ UNCHANGED <<content, spans, routerVars, pageVars, serviceVars>>

\* a block text is formatted by renderInlineMarkdown: parts, currentIndex,
\* allMatches and the four patterns are created anew by the call
Format ==
  /\ pc = "input"
  /\ spans' = renderInlineMarkdown(content)
  /\ pc' = "formatted"
  /\ log' = Append(log, Call("format", content, spans'))
  /\ UNCHANGED <<content, blocks, routerVars, pageVars, serviceVars>>

Next == Render \/ Format

\* the component renders again, on the same or on another text; what the
\* calls before returned is still there
Again(inputs) ==
  /\ pc # "input"
  /\ Len(log) < MaxRuns
  /\ content' \in inputs
  /\ pc' = "input"
  /\ UNCHANGED <<blocks, spans, log, routerVars, pageVars, serviceVars>>

(* --------------------- App.tsx: the hash router ---------------------- *)

Root == <<"/">>

AdminPrefix == <<"/", "a", "d", "m", "i", "n">>

LoginPath == AdminPrefix \o <<"/", "l", "o", "g", "i", "n">>

DashboardPath == AdminPrefix \o <<"/", "d", "a", "s", "h", "b", "o", "a", "r", "d">>

ProjectPrefix == <<"/", "p", "r", "o", "j", "e", "c", "t", "/">>

ArticlePrefix == <<"/", "a", "r", "t", "i", "c", "l", "e", "/">>

\* String.prototype.startsWith
startsWith(s, prefix) == Len(s) >= Len(prefix) /\ SubSeq(s, 1, Len(prefix)) = prefix

\* currentPath.match(/^\/project\/(.+)$/) and the same for /article/: the
\* prefix, then one or more characters up to the end, none a line terminator
detailMatch(path, prefix) ==
  /\ startsWith(path, prefix)
  /\ Len(path) > Len(prefix)
  /\ \A i \in (Len(prefix) + 1)..Len(path) : path[i] \notin LineTerminators

RemoveAt(h, at) == SubSeq(h, 1, at - 1) \o SubSeq(h, at + 1, Len(h))

\* h.replace('#', ''): the first '#' is removed
replaceHash(h, at) == IF at = {} THEN h ELSE RemoveAt(h, SetMin(at))

OrRoot(path) == IF path = <<>> THEN Root ELSE path

\* window.location.hash.replace('#', '') || '/'
pathOfHash(h) == OrRoot(replaceHash(h, {i \in 1..Len(h) : h[i] = "#"}))

\* the hash that navigate(path) assigns
hashOf(path) == <<"#">> \o path

\* no redirect is scheduled by the render
NoRedirect == <<>>

Shown(element, redirect) == [view |-> element, redirect |-> redirect]

\* mutant: the login route shows the login screen also to an authenticated user
renderRouteLoginAlways(loadingAuth, authed, path) ==
  IF loadingAuth THEN Shown("Loading", NoRedirect)
  ELSE IF detailMatch(path, ProjectPrefix) THEN Shown("ProjectDetail", NoRedirect)
  ELSE IF detailMatch(path, ArticlePrefix) THEN Shown("BlogDetail", NoRedirect)
  ELSE IF path = LoginPath THEN Shown("LoginScreen", NoRedirect)
  ELSE IF startsWith(path, AdminPrefix) /\ path # LoginPath
  THEN (IF ~authed THEN Shown("RedirectingToLogin", LoginPath)
        ELSE IF path = DashboardPath THEN Shown("AdminDashboard", NoRedirect)
        ELSE Shown("Redirecting", DashboardPath))
  ELSE Shown("PublicPortfolio", NoRedirect)

\* mutant: the dashboard branch is taken without the authentication test
renderRouteUnguarded(loadingAuth, authed, path) ==
  IF loadingAuth THEN Shown("Loading", NoRedirect)
  ELSE IF path = DashboardPath THEN Shown("AdminDashboard", NoRedirect)
  ELSE Shown("PublicPortfolio", NoRedirect)

\* renderRoute: the element returned for the state of App, and the path of the
\* redirect that the render schedules with setTimeout(..., 0), if any
renderRoute(loadingAuth, authed, path) ==
  IF loadingAuth THEN Shown("Loading", NoRedirect)
  ELSE IF detailMatch(path, ProjectPrefix) THEN Shown("ProjectDetail", NoRedirect)
  ELSE IF detailMatch(path, ArticlePrefix) THEN Shown("BlogDetail", NoRedirect)
  ELSE IF path = LoginPath
  THEN (IF authed THEN Shown("Redirecting", DashboardPath)
        ELSE Shown("LoginScreen", NoRedirect))
  ELSE IF startsWith(path, AdminPrefix) /\ path # LoginPath
  THEN (IF ~authed THEN Shown("RedirectingToLogin", LoginPath)
        ELSE IF path = DashboardPath THEN Shown("AdminDashboard", NoRedirect)
        ELSE Shown("Redirecting", DashboardPath))
  ELSE Shown("PublicPortfolio", NoRedirect)

\* mutant: the render schedules no timer
ScheduledNothing(queue, redirect) == queue

Scheduled(queue, redirect) ==
  IF redirect = NoRedirect THEN queue ELSE Append(queue, redirect)

\* the render that follows a change of the state of App and the timer it
\* schedules; nothing is rendered when no piece of state changed
Rerender(r) ==
  /\ view' = r.view
  /\ Len(Scheduled(timers, r.redirect)) <= MaxTimers
  /\ timers' = Scheduled(timers, r.redirect)

SetState(loadingAuth, authed, path) ==
  /\ authLoading' = loadingAuth
  /\ isAuthenticated' = authed
  /\ currentPath' = path
  /\ IF <<loadingAuth, authed, path>> = <<authLoading, isAuthenticated, currentPath>>
     THEN UNCHANGED <<view, timers>>
     ELSE Rerender(renderRoute(loadingAuth, authed, path))

\* window.location.hash = h: a hashchange event follows when the hash changed
AssignHash(h) ==
  /\ hash' = h
  /\ hashEvent' = (hashEvent \/ h # hash)

\* checkAuth returns: getSession gave a session or none (or threw, which
\* counts as none), and authLoading is cleared
CheckAuthDone ==
  /\ checking
  /\ checking' = FALSE
  /\ \E session \in BOOLEAN : SetState(FALSE, session, currentPath)
  /\ UNCHANGED <<hash, hashEvent, rendererVars, pageVars, serviceVars>>

\* the listener of onAuthStateChange: login, logout, token refresh
AuthStateChange ==
  /\ \E session \in BOOLEAN : SetState(authLoading, session, currentPath)
  /\ UNCHANGED <<hash, hashEvent, checking, rendererVars, pageVars, serviceVars>>

\* handleHashChange
HandleHashChange ==
  /\ hashEvent
  /\ hashEvent' = FALSE
  /\ SetState(authLoading, isAuthenticated, pathOfHash(hash))
  /\ UNCHANGED <<hash, checking, rendererVars, pageVars, serviceVars>>

\* the visitor edits the address, follows a link or goes back in the history
VisitorNavigates(hashes) ==
  /\ \E h \in hashes : AssignHash(h)
  /\ UNCHANGED <<authLoading, isAuthenticated, currentPath, checking, timers, view,
                 rendererVars, pageVars, serviceVars>>

\* mutant: the timer stays in the queue (an interval instead of a timeout)
TimerFiresRepeating ==
  /\ timers # <<>>
  /\ AssignHash(hashOf(Head(timers)))
  /\ UNCHANGED <<authLoading, isAuthenticated, currentPath, checking, timers, view,
                 rendererVars, pageVars, serviceVars>>

\* the oldest zero-delay timer fires: navigate(path)
TimerFires ==
  /\ timers # <<>>
  /\ AssignHash(hashOf(Head(timers)))
  /\ timers' = Tail(timers)
  /\ UNCHANGED <<authLoading, isAuthenticated, currentPath, checking, view,
                 rendererVars, pageVars, serviceVars>>

\* onLogin of LoginScreen, onLogout of AdminDashboard, onBack of the detail pages
Callback ==
  /\ \/ view = "LoginScreen" /\ AssignHash(hashOf(DashboardPath))
     \/ view = "AdminDashboard" /\ AssignHash(hashOf(LoginPath))
     \/ view \in {"ProjectDetail", "BlogDetail"} /\ AssignHash(hashOf(Root))
  /\ UNCHANGED <<authLoading, isAuthenticated, currentPath, checking, timers, view,
                 rendererVars, pageVars, serviceVars>>

\* handleOtpSubmit got data.user from verifyOtp and calls onLogin, which is
\* navigate('/admin/dashboard'); isAuthenticated is set by the auth listener
OnLogin ==
  /\ view = "LoginScreen"
  /\ AssignHash(hashOf(DashboardPath))
  /\ UNCHANGED <<authLoading, isAuthenticated, currentPath, checking, timers, view,
                 rendererVars, pageVars, serviceVars>>

\* the hashes a visitor can put in the address bar
VisitorHashes ==
  {<<>>, hashOf(Root), hashOf(AdminPrefix), hashOf(LoginPath), hashOf(DashboardPath),
   hashOf(AdminPrefix \o <<"/", "x">>), hashOf(AdminPrefix \o <<"x">>),
   hashOf(ProjectPrefix \o <<"1">>), hashOf(ArticlePrefix \o <<"1">>),
   hashOf(ArticlePrefix), hashOf(<<"/", "x">>)}

\* App after its first render and its mount effects: the auth check runs, an
\* empty hash was replaced by '#/', and the path was read from the hash
RouterInit(hashes) ==
  /\ \E h \in hashes :
       /\ hash = (IF h = <<>> THEN hashOf(Root) ELSE h)
       /\ hashEvent = (h = <<>>)
       /\ currentPath = pathOfHash(h)
  /\ authLoading = TRUE
  /\ isAuthenticated = FALSE
  /\ checking = TRUE
  /\ timers = <<>>
  /\ view = "Loading"

NextRouter ==
  \/ CheckAuthDone
  \/ AuthStateChange
  \/ HandleHashChange
  \/ VisitorNavigates(VisitorHashes)
  \/ TimerFires
  \/ Callback

(* ------------ the public pages: PublicPortfolio and BlogDetail -------- *)

\* the ids of the rows of blog_posts
PostIds == {"1", "2"}

\* the ids a route /article/<id> can ask for: the rows and one that is no row
RouteIds == PostIds \cup {"3"}

\* blog === null (and no BlogDetail mounted: blogId is NoBlog.id)
NoBlog == [id |-> "null", published |-> FALSE]

\* error === null
NoError == "null"

Row(id, d) == [id |-> id, published |-> d[id]]

\* supabase.from('blog_posts').select('*').order(...): the rows, each with its
\* flag at the time of the query
rowsOf(d) == <<Row("1", d), Row("2", d)>>

\* MOCK_BLOGS of constants.ts: two posts, both published
MOCK_BLOGS == <<[id |-> "1", published |-> TRUE], [id |-> "2", published |-> TRUE]>>

\* DataService.getBlogPosts: the rows, or the mock posts when there is no
\* backend or the query gave an error
getBlogPosts(d, ok) == IF ok THEN rowsOf(d) ELSE MOCK_BLOGS

isPublished(b) == b.published

\* mutant: the list is set without the filter
publishedOnlyUnfiltered(rows) == rows

\* blogsData.filter(b => b.published)
publishedOnly(rows) == SelectSeq(rows, isPublished)

FirstOrNull(rows, at) == IF at = {} THEN NoBlog ELSE rows[SetMin(at)]

\* allBlogs.find(b => b.id === blogId)
find(rows, id) == FirstOrNull(rows, {i \in 1..Len(rows) : rows[i].id = id})

\* the three returns of the component BlogDetail
detailView(isLoading, err, b) ==
  IF isLoading THEN "loading"
  ELSE IF err # NoError \/ b = NoBlog THEN "error"
  ELSE "article"

\* PublicPortfolio mounts: blogs is empty and loadData starts
PortfolioMounts ==
  /\ blogs' = <<>>
  /\ listPending' = {"load"}
  /\ UNCHANGED <<db, blogId, blog, loading, error, loads, requested,
                 rendererVars, routerVars, serviceVars>>

\* the window gains focus: refreshBlogs starts
Focus ==
  /\ listPending' = listPending \cup {"focus"}
  /\ UNCHANGED <<db, blogs, blogId, blog, loading, error, loads, requested,
                 rendererVars, routerVars, serviceVars>>

\* loadData or refreshBlogs gets its answer (the query is taken to run when
\* the answer arrives), or throws and leaves blogs as it was
ListAnswer(kind) ==
  /\ kind \in listPending
  /\ listPending' = listPending \ {kind}
  /\ \/ \E ok \in BOOLEAN : blogs' = publishedOnly(getBlogPosts(db, ok))
     \/ UNCHANGED blogs
  /\ UNCHANGED <<db, blogId, blog, loading, error, loads, requested,
                 rendererVars, routerVars, serviceVars>>

LoadDataDone == ListAnswer("load")

RefreshDone == ListAnswer("focus")

\* handleSaveBlog of the dashboard: a post is saved published or unpublished
SaveBlog ==
  /\ \E id \in PostIds : \E flag \in BOOLEAN : db' = [db EXCEPT ![id] = flag]
  /\ UNCHANGED <<blogs, listPending, blogId, blog, loading, error, loads, requested,
                 rendererVars, routerVars, serviceVars>>

\* the route /article/<id> renders BlogDetail with a new blogId (a mount, or a
\* change of the prop of the mounted component): the effect calls loadBlog
OpenArticle ==
  /\ requested < MaxRequests
  /\ \E id \in RouteIds \ {blogId} :
       /\ blogId' = id
       /\ loads' = loads \cup {[id |-> id, n |-> requested + 1]}
  /\ requested' = requested + 1
  /\ loading' = TRUE
  /\ error' = NoError
  /\ UNCHANGED <<db, blogs, listPending, blog, rendererVars, routerVars, serviceVars>>

\* another route is rendered: BlogDetail unmounts and its state is gone
CloseArticle ==
  /\ blogId # NoBlog.id
  /\ blogId' = NoBlog.id
  /\ blog' = NoBlog
  /\ loading' = TRUE
  /\ error' = NoError
  /\ loads' = {}
  /\ requested' = 0
  /\ UNCHANGED <<db, blogs, listPending, rendererVars, routerVars, serviceVars>>

\* the branches of loadBlog after the await
Found(foundBlog) ==
  IF foundBlog = NoBlog THEN error' = "Article not found" /\ UNCHANGED blog
  ELSE IF ~foundBlog.published THEN error' = "Article not published" /\ UNCHANGED blog
  ELSE blog' = foundBlog /\ UNCHANGED error

\* a call of loadBlog gets its answer, or throws; loading is cleared
LoadBlogDone ==
  /\ \E l \in loads :
       /\ loads' = loads \ {l}
       /\ \/ \E ok \in BOOLEAN : Found(find(getBlogPosts(db, ok), l.id))
          \/ error' = "Failed to load article" /\ UNCHANGED blog
  /\ loading' = FALSE
  /\ UNCHANGED <<db, blogs, listPending, blogId, requested,
                 rendererVars, routerVars, serviceVars>>

\* the table when the page is opened, and the pages as constructed: the
\* portfolio has started loadData, no BlogDetail is mounted
PagesInit(tables) ==
  /\ db \in tables
  /\ blogs = <<>>
  /\ listPending = {"load"}
  /\ blogId = NoBlog.id
  /\ blog = NoBlog
  /\ loading = TRUE
  /\ error = NoError
  /\ loads = {}
  /\ requested = 0

NextPages ==
  \/ PortfolioMounts
  \/ Focus
  \/ LoadDataDone
  \/ RefreshDone
  \/ SaveBlog
  \/ OpenArticle
  \/ CloseArticle
  \/ LoadBlogDone

(* ------------- services/adminService.ts: selected_work --------------- *)

\* the ids the backend gives to the rows of selected_work
ProjectIds == 1..MaxProjects

\* what the awaited query gives: { data, error: null }, { data: null, error:
\* null }, an error with the code of a missing table, of a row-level-security
\* denial or of a JWT failure, any other error, or a rejected promise
Responses == {"data", "noData", "42P01", "42501", "PGRST301", "otherError", "rejects"}

\* the responses with which the backend has carried the statement out
Accepted == {"data", "noData"}

Returned(value) == [kind |-> "returned", value |-> value]

\* the promise of the async function rejects with new Error(message)
Thrown(message) == [kind |-> "thrown", value |-> message]

\* no call yet
NoCall == [op |-> "none", response |-> "none", result |-> Returned("none")]

\* the messages of the branches on the error that createProject throws
createError(response) ==
  CASE response = "42P01" -> "Table 'selected_work' does not exist"
    [] response = "42501" -> "Permission denied"
    [] response = "PGRST301" -> "Authentication error"
    [] OTHER -> "Failed to create project"

\* createProject: every error is thrown inside the try, and the catch throws
\* it again (an Error stays as it is)
createProject(response) ==
  IF response = "rejects" THEN Thrown("rejected")
  ELSE IF response = "noData" THEN Thrown("Project created but no data returned")
  ELSE IF response = "data" THEN Returned("project")
  ELSE Thrown(createError(response))

\* the branches of updateProject and deleteProject know no JWT error
changeError(response, generic) ==
  CASE response = "42P01" -> "Table 'selected_work' does not exist"
    [] response = "42501" -> "Permission denied"
    [] OTHER -> generic

updateProject(response) ==
  IF response = "rejects" THEN Thrown("rejected")
  ELSE IF response = "noData" THEN Thrown("Project updated but no data returned")
  ELSE IF response = "data" THEN Returned("project")
  ELSE Thrown(changeError(response, "Failed to update project"))

\* deleteProject destructures only error: no data is looked at
deleteProject(response) ==
  IF response = "rejects" THEN Thrown("rejected")
  ELSE IF response \in Accepted THEN Returned("true")
  ELSE Thrown(changeError(response, "Failed to delete project"))

AdminCall(op, response, result) ==
  /\ lastCall' = [op |-> op, response |-> response, result |-> result]
  /\ UNCHANGED <<analytics, incr, viewsBefore, rendererVars, routerVars, pageVars>>

\* insert([project]).select().single(): an accepted insert adds a row
CreateProject ==
  /\ \E response \in Responses :
       /\ response \in Accepted => projects # ProjectIds
       /\ projects' = (IF response \in Accepted
                       THEN projects \cup {SetMin(ProjectIds \ projects)}
                       ELSE projects)
       /\ AdminCall("createProject", response, createProject(response))

\* update(project).eq('id', id).select().single(): single() gives an error
\* when no row has the id
UpdateProject ==
  /\ \E id \in ProjectIds : \E response \in Responses :
       /\ response \in Accepted => id \in projects
       /\ AdminCall("updateProject", response, updateProject(response))
  /\ UNCHANGED projects

\* delete().eq('id', id): accepted also when no row has the id
DeleteProject ==
  /\ \E id \in ProjectIds : \E response \in Responses :
       /\ projects' = (IF response \in Accepted THEN projects \ {id} ELSE projects)
       /\ AdminCall("deleteProject", response, deleteProject(response))

NextAdmin == CreateProject \/ UpdateProject \/ DeleteProject

(* ------ supabase_migration.sql: increment_portfolio_views() ---------- *)

\* the calls of the function, each in a transaction of its own (READ COMMITTED)
Calls == 1..MaxCalls

\* a row of portfolio_analytics: writer is the call that has updated the row
\* and not yet committed (it holds the row lock), inserter the call that has
\* inserted it and not yet committed; 0 is none
AnalyticsRow(count, writer, inserter) ==
  [view_count |-> count, writer |-> writer, inserter |-> inserter]

IsCommitted(row) == row.inserter = 0

\* getTotalPortfolioViews: select('view_count').single() gives an error unless
\* there is exactly one row, and an error reads as 0
getTotalPortfolioViews(rows) ==
  IF Len(SelectSeq(rows, IsCommitted)) = 1
  THEN SelectSeq(rows, IsCommitted)[1].view_count
  ELSE 0

\* UPDATE ... WHERE id = (SELECT id ... ORDER BY created_at ASC LIMIT 1) on the
\* rows that the statement sees (rows are kept in the order of created_at):
\* no row and NOT FOUND, or the first row, updated once its lock is free
UpdateFirst(p, seen) ==
  IF seen = {} THEN incr' = [incr EXCEPT ![p] = "insert"] /\ UNCHANGED analytics
  ELSE /\ analytics[SetMin(seen)].writer = 0
       /\ analytics' = [analytics EXCEPT ![SetMin(seen)].writer = p]
       /\ incr' = [incr EXCEPT ![p] = "commit"]

\* a visitor opens the portfolio: supabase.rpc('increment_portfolio_views')
CallIncrement(p) ==
  /\ incr[p] = "idle"
  /\ incr' = [incr EXCEPT ![p] = "update"]
  /\ UNCHANGED <<analytics, viewsBefore, projects, lastCall,
                 rendererVars, routerVars, pageVars>>

UpdateViews(p) ==
  /\ incr[p] = "update"
  /\ UpdateFirst(p, {i \in 1..Len(analytics) : IsCommitted(analytics[i])})
  /\ UNCHANGED <<viewsBefore, projects, lastCall, rendererVars, routerVars, pageVars>>

\* IF NOT FOUND THEN INSERT ... VALUES (1)
InsertViews(p) ==
  /\ incr[p] = "insert"
  /\ analytics' = Append(analytics, AnalyticsRow(1, 0, p))
  /\ incr' = [incr EXCEPT ![p] = "commit"]
  /\ UNCHANGED <<viewsBefore, projects, lastCall, rendererVars, routerVars, pageVars>>

CommittedBy(p, row) ==
  IF row.writer = p THEN AnalyticsRow(row.view_count + 1, 0, row.inserter)
  ELSE IF row.inserter = p THEN AnalyticsRow(row.view_count, row.writer, 0)
  ELSE row

\* the function returns and its transaction commits: the update or the insert
\* becomes visible and the row lock is released
CommitViews(p) ==
  /\ incr[p] = "commit"
  /\ analytics' = [i \in 1..Len(analytics) |-> CommittedBy(p, analytics[i])]
  /\ incr' = [incr EXCEPT ![p] = "done"]
  /\ UNCHANGED <<viewsBefore, projects, lastCall, rendererVars, routerVars, pageVars>>

NextViews ==
  \E p \in Calls : CallIncrement(p) \/ UpdateViews(p) \/ InsertViews(p) \/ CommitViews(p)

\* the services as the other pages leave them: no admin call made, the single
\* row of the migration in the table, no call of the function
ServiceInit ==
  /\ projects = {}
  /\ lastCall = NoCall
  /\ analytics = <<AnalyticsRow(0, 0, 0)>>
  /\ incr = [p \in Calls |-> "idle"]
  /\ viewsBefore = 0

(* ------------------------------ inputs ------------------------------- *)

RendererInit(inputs) ==
  /\ content \in inputs
  /\ pc = "input"
  /\ blocks = <<>>
  /\ spans = <<>>
  /\ log = <<>>

\* the renderer on one of the inputs, at the route '/' with both posts published
InitWith(inputs) ==
  /\ RendererInit(inputs)
  /\ RouterInit({hashOf(Root)})
  /\ PagesInit({[id \in PostIds |-> TRUE]})
  /\ ServiceInit

\* the texts of the repeated calls: plain, italic, bold (overlapping matches),
\* a heading and a paragraph
RunTexts ==
  {<<"a">>, <<"*", "a", "*">>, <<"*", "*", "a", "*", "*">>,
   <<"#", " ", "a", "\n", "\n", "a">>}

NextRuns == Render \/ Format \/ Again(RunTexts)

InitRuns == InitWith(RunTexts)

\* the renderer called again and again
SpecRuns == InitRuns /\ [][NextRuns]_vars

InitRouter ==
  /\ RendererInit({<<>>})
  /\ RouterInit(VisitorHashes)
  /\ PagesInit({[id \in PostIds |-> TRUE]})
  /\ ServiceInit

\* the router from any address
SpecRouter == InitRouter /\ [][NextRouter]_vars

\* the app left to itself at any address: the auth check, the auth events, the
\* hashchange events and the timers, and no action of the visitor
NextSettle ==
  \/ CheckAuthDone
  \/ AuthStateChange
  \/ HandleHashChange
  \/ TimerFires

\* the event loop runs every pending callback: the promise of getSession
\* settles, a dispatched hashchange event is handled, a zero-delay timer fires
EventLoop ==
  /\ WF_vars(CheckAuthDone)
  /\ WF_vars(HandleHashChange)
  /\ WF_vars(TimerFires)

SpecSettle == InitRouter /\ [][NextSettle]_vars /\ EventLoop

\* redirects of earlier renders that can still wait when the login screen
\* is shown
StaleTimers == SeqsUpTo({LoginPath, DashboardPath}, MaxTimers - 1)

\* the login screen is shown to a user who is not signed in
InitLogin ==
  /\ RendererInit({<<>>})
  /\ PagesInit({[id \in PostIds |-> TRUE]})
  /\ ServiceInit
  /\ authLoading = FALSE
  /\ isAuthenticated = FALSE
  /\ checking = FALSE
  /\ currentPath = LoginPath
  /\ hash = hashOf(LoginPath)
  /\ hashEvent = FALSE
  /\ view = "LoginScreen"
  /\ timers \in StaleTimers

NextLogin ==
  \/ OnLogin
  \/ AuthStateChange
  \/ HandleHashChange
  \/ TimerFires

\* signing in: the event loop runs the hashchange handler and the timers
SpecLogin ==
  InitLogin /\ [][NextLogin]_vars /\ WF_vars(HandleHashChange) /\ WF_vars(TimerFires)

InitPages ==
  /\ RendererInit({<<>>})
  /\ RouterInit({hashOf(Root)})
  /\ PagesInit([PostIds -> BOOLEAN])
  /\ ServiceInit

\* the dashboard works on a table of any rows
InitAdmin ==
  /\ RendererInit({<<>>})
  /\ RouterInit({hashOf(DashboardPath)})
  /\ PagesInit({[id \in PostIds |-> TRUE]})
  /\ projects \in SUBSET ProjectIds
  /\ lastCall = NoCall
  /\ analytics = <<AnalyticsRow(0, 0, 0)>>
  /\ incr = [p \in Calls |-> "idle"]
  /\ viewsBefore = 0

\* the admin CRUD functions on any backend response
SpecAdmin == InitAdmin /\ [][NextAdmin]_vars

\* the tables the function can find: the single row of the migration with
\* some count, or no row (the table was emptied)
StartTables == {<<>>} \cup {<<AnalyticsRow(c, 0, 0)>> : c \in 0..1}

InitViews ==
  /\ RendererInit({<<>>})
  /\ RouterInit({hashOf(Root)})
  /\ PagesInit({[id \in PostIds |-> TRUE]})
  /\ projects = {}
  /\ lastCall = NoCall
  /\ analytics \in StartTables
  /\ incr = [p \in Calls |-> "idle"]
  /\ viewsBefore = getTotalPortfolioViews(analytics)

\* visitors opening the portfolio at the same time
SpecViews == InitViews /\ [][NextViews]_vars

\* the public pages over any table
SpecPages == InitPages /\ [][NextPages]_vars

DocChars == {"a", " ", "\n", "#", "-"}

HeadingChars == {"#", " ", "\n", "a"}

ListChars == {"-", " ", "\n", "a"}

OrderedChars == {"1", ".", " ", "\n", "a"}

EmphChars == {"a", "*", "_", Backtick, "\n"}

LinkChars == {"a", "[", "]", "(", ")", "\n"}

\* "# Title\n\nSome **bold** and *italic* text.\n\n- a\n- b"
EndToEndDoc ==
  <<"#", " ", "T", "i", "t", "l", "e", "\n", "\n">>
    \o <<"S", "o", "m", "e", " ", "*", "*", "b", "o", "l", "d", "*", "*", " ">>
    \o <<"a", "n", "d", " ", "*", "i", "t", "a", "l", "i", "c", "*", " ">>
    \o <<"t", "e", "x", "t", ".", "\n", "\n">>
    \o <<"-", " ", "a", "\n", "-", " ", "b">>

Init == InitWith(SeqsUpTo(DocChars, MaxDocLen) \cup {EndToEndDoc})

Spec == Init /\ [][Next]_vars

SpecHeading == InitWith(SeqsUpTo(HeadingChars, MaxHeadingLen)) /\ [][Next]_vars

SpecList == InitWith(SeqsUpTo(ListChars, MaxListLen)) /\ [][Next]_vars

SpecOrdered == InitWith(SeqsUpTo(OrderedChars, MaxOrderedLen)) /\ [][Next]_vars

SpecInline ==
  InitWith(SeqsUpTo(EmphChars, MaxInlineLen) \cup SeqsUpTo(LinkChars, MaxInlineLen))
    /\ [][Next]_vars

\* texts of emphasis and code markers only
SpecEmph == InitWith(SeqsUpTo(EmphChars, MaxInlineLen)) /\ [][Next]_vars

RECURSIVE Concat(_)
Concat(ps) == IF ps = <<>> THEN <<>> ELSE Head(ps) \o Concat(Tail(ps))

\* a link, an italic and a code construct, and loose characters
ScanPieces ==
  {<<"[", "a", "]", "(", "a", ")">>, <<"*", "a", "*">>, <<Backtick, "a", Backtick>>,
   <<"a">>, <<"[">>, <<"*">>}

\* texts of several constructs in a row
PieceTexts == {Concat(ps) : ps \in SeqsUpTo(ScanPieces, MaxPieces)}

InitScan == InitWith(SeqsUpTo(EmphChars, MaxScanLen) \cup PieceTexts)

\* short texts of emphasis and code markers, and longer ones with links
SpecScan == InitScan /\ [][Next]_vars

(* ===================================================================== *)
(*                               claims                                  *)
(* ===================================================================== *)

MarkerChars == {"*", "_", Backtick, "[", "]", "(", ")"}

MarkerFree(s) == \A i \in 1..Len(s) : s[i] \notin MarkerChars

OneLine(s) == \A i \in 1..Len(s) : s[i] \notin LineTerminators

HasText(s) == \E i \in 1..Len(s) : s[i] \notin Ws

\* the text between the first w and the last w characters
Inner(s, w) == SubSeq(s, w + 1, Len(s) - w)

Bold(x) == [type |-> "bold", content |-> x, url |-> <<>>]

Italic(x) == [type |-> "italic", content |-> x, url |-> <<>>]

Code(x) == [type |-> "code", content |-> x, url |-> <<>>]

Link(x, u) == [type |-> "link", content |-> x, url |-> u]

\* no newline is followed, after optional whitespace, by another newline
NoSeparator(s) ==
  ~\E i \in 1..Len(s) : \E j \in (i + 1)..Len(s) :
      /\ s[i] = "\n"
      /\ s[j] = "\n"
      /\ \A k \in (i + 1)..(j - 1) : s[k] \in Ws

\* the trimmed i-th candidate of the document
Candidate(s, i) == trim(paragraphs(s)[i])

(* ------------------------------- C1 ---------------------------------- *)

EndToEndSpans ==
  <<PlainText(<<"S", "o", "m", "e", " ">>), Bold(<<"b", "o", "l", "d">>),
    PlainText(<<" ", "a", "n", "d", " ">>), Italic(<<"i", "t", "a", "l", "i", "c">>),
    PlainText(<<" ", "t", "e", "x", "t", ".">>)>>

EndToEndExpected(r) ==
  /\ Len(r) = 3
  /\ r[1].kind = "heading" /\ r[1].level = 1
  /\ r[1].texts = <<<<"T", "i", "t", "l", "e">>>>
  /\ r[2].kind = "p" /\ r[2].spans = <<EndToEndSpans>>
  /\ r[3].kind = "ul" /\ r[3].texts = <<<<"a">>, <<"b">>>>

\* C1: rendering "# Title\n\nSome **bold** and *italic* text.\n\n- a\n- b" yields
\* exactly the level-1 heading "Title", a paragraph with the spans PlainText
\* "Some ", Bold "bold", PlainText " and ", Italic "italic", PlainText " text.",
\* and an unordered list with the items "a" and "b"
C1_EndToEnd ==
  (pc = "rendered" /\ content = EndToEndDoc) => EndToEndExpected(Rendered(blocks))

(* ------------------------------- C2 ---------------------------------- *)

\* **x** or __x__ with a non-empty x free of marker characters, on one line
BoldForm(s) ==
  /\ Len(s) >= 5
  /\ s[1] \in {"*", "_"}
  /\ s[2] = s[1] /\ s[Len(s) - 1] = s[1] /\ s[Len(s)] = s[1]
  /\ MarkerFree(Inner(s, 2))
  /\ OneLine(Inner(s, 2))

\* C2: for a text **x** or __x__, x free of marker characters, the formatter
\* outputs exactly one span, a Bold span with content x (checked for x within
\* one line)
C2_BoldOnly ==
  (pc = "formatted" /\ BoldForm(content)) => spans = <<Bold(Inner(content, 2))>>

(* ------------------------------- C3 ---------------------------------- *)

\* *x* or _x_ with a non-empty x free of marker characters
ItalicForm(s) ==
  /\ Len(s) >= 3
  /\ s[1] \in {"*", "_"}
  /\ s[Len(s)] = s[1]
  /\ MarkerFree(Inner(s, 1))

\* a backtick, a non-empty x free of marker characters, a backtick
CodeForm(s) ==
  /\ Len(s) >= 3
  /\ s[1] = Backtick
  /\ s[Len(s)] = Backtick
  /\ MarkerFree(Inner(s, 1))

\* the positions k of "](" for which s is [t](u) with non-empty t and u free
\* of marker characters
LinkForms(s) ==
  {k \in 3..(Len(s) - 3) :
     /\ s[1] = "[" /\ s[k] = "]" /\ s[k + 1] = "(" /\ s[Len(s)] = ")"
     /\ MarkerFree(SubSeq(s, 2, k - 1))
     /\ MarkerFree(SubSeq(s, k + 2, Len(s) - 1))}

CodeAndLinkAlone(s, out) ==
  /\ CodeForm(s) => out = <<Code(Inner(s, 1))>>
  /\ \A k \in LinkForms(s) :
       out = <<Link(SubSeq(s, 2, k - 1), SubSeq(s, k + 2, Len(s) - 1))>>

\* C3 as stated: a text that is a single italic, code or link construct with
\* x, t, u free of marker characters yields exactly one span of that kind
C3_Original ==
  pc = "formatted" =>
    /\ ItalicForm(content) => spans = <<Italic(Inner(content, 1))>>
    /\ CodeAndLinkAlone(content, spans)

\* C3 (amended): the same, for an italic construct whose x holds no line break;
\* x of a code construct and t, u of a link may span lines
C3_SingleConstruct ==
  pc = "formatted" =>
    /\ (ItalicForm(content) /\ OneLine(Inner(content, 1)))
         => spans = <<Italic(Inner(content, 1))>>
    /\ CodeAndLinkAlone(content, spans)

C3_Witness ==
  /\ pc = "formatted"
  /\ LinkForms(content) # {}
  /\ Len(spans) = 1
  /\ spans[1].type = "link"

(* ------------------------------- C4 ---------------------------------- *)

\* the candidate c starts with one or more '#' followed by whitespace
HeadingMarker(c) ==
  /\ c # <<>>
  /\ c[1] = "#"
  /\ RunIn({"#"}, c, 1) < Len(c)
  /\ c[RunIn({"#"}, c, 1) + 1] \in Ws

SkipWs(c, n) == SubSeq(c, n + RunIn(Ws, c, n + 1) + 1, Len(c))

\* everything after the marker and the whitespace
TextAfterMarker(c) == SkipWs(c, RunIn({"#"}, c, 1))

HeadingOf(c, b) ==
  HeadingMarker(c) => (b.kind = "heading" /\ b.texts = <<TextAfterMarker(c)>>)

\* C4: every candidate that starts with one or more '#' followed by whitespace
\* is a Heading whose text is everything after the marker and the whitespace,
\* a candidate of several lines included
C4_HeadingAlways ==
  pc = "rendered" =>
    \A i \in 1..Len(blocks) : HeadingOf(Candidate(content, i), blocks[i])

(* ------------------------------- C5 ---------------------------------- *)

\* s begins with n >= 1 '#' and a space, and text follows in the same section
BeginsWithHeading(s) ==
  /\ s # <<>>
  /\ s[1] = "#"
  /\ RunIn({"#"}, s, 1) < Len(s)
  /\ s[RunIn({"#"}, s, 1) + 1] = " "
  /\ HeadingMarker(Candidate(s, 1))

FirstIsHeading(r, n) ==
  r # <<>> /\ r[1].kind = "heading" /\ r[1].level = Min(n, 3)

\* C5: a string that begins with n '#' and a space yields a Heading of level
\* min(n, 3), and no heading has a level outside 1..3
C5_LevelClamp ==
  pc = "rendered" =>
    /\ BeginsWithHeading(content)
         => FirstIsHeading(Rendered(blocks), RunIn({"#"}, content, 1))
    /\ \A i \in 1..Len(blocks) :
         blocks[i].kind = "heading" => blocks[i].level \in {1, 2, 3}

(* ------------------------------- C6 ---------------------------------- *)

\* the line starts with a list marker and whitespace
MarkerLine(l) == Len(l) >= 2 /\ l[1] \in ListMarkers /\ l[2] \in Ws

\* exactly one line starts with no list marker, indented or not, and the
\* other lines, at least one, start with one
OneOddLine(ls) ==
  /\ Len(ls) >= 2
  /\ \E j \in 1..Len(ls) :
       /\ ~MarkerLine(ls[j]) /\ ~MarkerLine(trim(ls[j]))
       /\ \A k \in (1..Len(ls)) \ {j} : MarkerLine(ls[k])

ParagraphOf(c, b) ==
  OneOddLine(splitLines(c)) => (b.kind = "p" /\ b.texts = <<c>>)

\* C6: a list candidate with one non-marker line among marker lines is a
\* single Paragraph that holds the whole candidate text
C6_MixedIsParagraph ==
  pc = "rendered" =>
    \A i \in 1..Len(blocks) : ParagraphOf(Candidate(content, i), blocks[i])

(* ------------------------------- C7 ---------------------------------- *)

\* the lines of the document, by the positions that follow a newline
LineStarts(s) == {1} \cup {i + 1 : i \in {j \in 1..Len(s) : s[j] = "\n"}}

LineFrom(s, p) == SubSeq(s, p, p + RunNotIn({"\n"}, s, p) - 1)

TextLineStarts(s) == {p \in LineStarts(s) : HasText(LineFrom(s, p))}

\* the n-th non-blank line
TextLine(s, n) ==
  LineFrom(s, CHOOSE p \in TextLineStarts(s) :
                Cardinality({q \in TextLineStarts(s) : q < p}) = n - 1)

DashLine(l) == Len(l) >= 2 /\ l[1] = "-" /\ l[2] = " "

\* at least one non-blank line, and each starts with "- "
AllDashLines(s) ==
  /\ TextLineStarts(s) # {}
  /\ \A p \in TextLineStarts(s) : DashLine(LineFrom(s, p))

\* one unordered list whose items are the non-blank lines, in order, each
\* without its marker (compared up to surrounding whitespace)
OneListOfLines(r, s) ==
  /\ Len(r) = 1
  /\ r[1].kind = "ul"
  /\ Len(r[1].texts) = Cardinality(TextLineStarts(s))
  /\ \A n \in 1..Len(r[1].texts) : trim(r[1].texts[n]) = trim(Tail(TextLine(s, n)))

\* C7 as stated: a string whose non-blank lines all start with "- " yields
\* exactly one UnorderedList with one item per non-blank line, in line order
C7_Original ==
  (pc = "rendered" /\ AllDashLines(content))
    => OneListOfLines(Rendered(blocks), content)

\* every non-blank line has text after its "- "
AllItemsHaveText(s) ==
  \A p \in TextLineStarts(s) : HasText(Tail(Tail(LineFrom(s, p))))

\* no blank line lies between two non-blank lines
NoBlankLineInside(s) ==
  \A p \in LineStarts(s) :
    (/\ \E q \in TextLineStarts(s) : q < p
     /\ \E q \in TextLineStarts(s) : q > p)
      => p \in TextLineStarts(s)

\* C7 (amended): a string whose non-blank lines all start with "- " followed
\* by some text, with no blank line between two of them, yields exactly one
\* UnorderedList with one item per non-blank line, in line order
C7_OneListPerSection ==
  (pc = "rendered" /\ AllDashLines(content) /\ AllItemsHaveText(content)
     /\ NoBlankLineInside(content))
    => OneListOfLines(Rendered(blocks), content)

C7_Witness ==
  /\ pc = "rendered"
  /\ AllDashLines(content) /\ AllItemsHaveText(content) /\ NoBlankLineInside(content)
  /\ Cardinality(TextLineStarts(content)) = 2
  /\ Len(Rendered(blocks)) = 1
  /\ Len(Rendered(blocks)[1].texts) = 2

(* ------------------------------- C8 ---------------------------------- *)

\* the lines of the candidate that the unordered-list branch accepts
AcceptedLines(c) == SelectSeq(splitLines(c), bulletLine)

ItemsStripped(ls, b) ==
  b.kind = "ul" =>
    \A j \in 1..Len(b.texts) : trim(b.texts[j]) = trim(Tail(trim(ls[j])))

\* C8: every item of an UnorderedList is its accepted source line without the
\* list marker and the whitespace after it, a line accepted after its
\* indentation was ignored included (compared up to surrounding whitespace)
C8_MarkerStripped ==
  pc = "rendered" =>
    \A i \in 1..Len(blocks) :
      ItemsStripped(AcceptedLines(Candidate(content, i)), blocks[i])

(* ------------------------------- C9 ---------------------------------- *)

\* the line starts with digits, '.' and whitespace
NumberedLine(l) ==
  /\ l # <<>>
  /\ l[1] \in Digits
  /\ RunIn(Digits, l, 1) + 2 <= Len(l)
  /\ l[RunIn(Digits, l, 1) + 1] = "."
  /\ l[RunIn(Digits, l, 1) + 2] \in Ws

AllNumbered(ls) == \A j \in 1..Len(ls) : HasText(ls[j]) => NumberedLine(ls[j])

OrderedExactly(ls, b) ==
  b.kind \notin {"null", "heading", "ul"} =>
    /\ b.kind = "ol" <=> AllNumbered(ls)
    /\ b.kind # "ol" => b.kind = "p"
    /\ b.kind = "ol" => Len(b.texts) = Len(ls)

\* C9: a candidate that is neither heading nor unordered list is an
\* OrderedList exactly when every non-blank line starts with digits, '.' and
\* whitespace, with one item per line; otherwise it is a Paragraph
C9_OrderedExactly ==
  pc = "rendered" =>
    \A i \in 1..Len(blocks) :
      OrderedExactly(splitLines(Candidate(content, i)), blocks[i])

(* ------------------------------- C10 --------------------------------- *)

\* C10 as stated: a string with no blank-line separator yields exactly one Block
C10_Original ==
  (pc = "rendered" /\ NoSeparator(content)) => Len(Rendered(blocks)) = 1

\* C10 (amended): a string with no blank-line separator yields exactly one
\* Block when it holds a character other than whitespace, and no Block otherwise
C10_OneBlock ==
  (pc = "rendered" /\ NoSeparator(content))
    => Len(Rendered(blocks)) = (IF HasText(content) THEN 1 ELSE 0)

\* two lines of text in one section, rendered as one block
C10_Witness ==
  /\ pc = "rendered"
  /\ NoSeparator(content)
  /\ \E i \in 2..(Len(content) - 1) :
       content[i] = "\n" /\ content[i - 1] \notin Ws /\ content[i + 1] \notin Ws
  /\ Len(Rendered(blocks)) = 1
  /\ Rendered(blocks)[1].kind = "p"

(* ------------------------------- C11 --------------------------------- *)

\* C11: the empty document, and a document made only of whitespace and
\* newlines, yields zero Blocks
C11_EmptyDocument ==
  (pc = "rendered" /\ ~HasText(content)) => Rendered(blocks) = <<>>

\* a whitespace-only document of two empty candidates
C11_Witness ==
  /\ pc = "rendered"
  /\ content # <<>>
  /\ ~HasText(content)
  /\ Len(blocks) = 2
  /\ Rendered(blocks) = <<>>

(* ------------------------------- C12 --------------------------------- *)

TrimEach(ps) == [i \in 1..Len(ps) |-> trim(ps[i])]

NonEmpty(c) == c # <<>>

\* the candidates of the document that are non-empty after trimming, in order
NonEmptyCandidates(s) == SelectSeq(TrimEach(paragraphs(s)), NonEmpty)

BlocksOf(cs, r) ==
  /\ Len(r) = Len(cs)
  /\ \A i \in 1..Len(r) : r[i] = renderTrimmed(cs[i])

\* C12: there are as many blocks as candidates that are non-empty after
\* trimming, and the i-th block is the rendering of the i-th such candidate
\* alone: nothing is reordered, merged or dropped
C12_BlockOrder ==
  pc = "rendered" => BlocksOf(NonEmptyCandidates(content), Rendered(blocks))

\* an empty candidate and two different blocks
C12_Witness ==
  /\ pc = "rendered"
  /\ Len(blocks) = 3
  /\ Len(Rendered(blocks)) = 2
  /\ Rendered(blocks)[1] # Rendered(blocks)[2]

(* ------------------------------- C13 --------------------------------- *)

IsFormatted(sp) == sp.type # "text"

NonDecreasing(ms) == \A i \in 1..(Len(ms) - 1) : ms[i].index <= ms[i + 1].index

FormattedOf(ms) == [i \in 1..Len(ms) |-> Formatted(ms[i])]

InOffsetOrder(ms, out) ==
  /\ NonDecreasing(ms)
  /\ SelectSeq(out, IsFormatted) = FormattedOf(ms)

\* C13: the formatted spans of a text are the matches in the order of the
\* walk, and that order is non-decreasing in the start offset of the match,
\* whichever pattern found it
C13_SpanOrder ==
  pc = "formatted" => InOffsetOrder(allMatches(content), spans)

\* a code span before an italic span, although italic matches are pushed first
C13_Witness ==
  /\ pc = "formatted"
  /\ Len(spans) = 2
  /\ spans[1].type = "code"
  /\ spans[2].type = "italic"

(* ------------------------------- C14 --------------------------------- *)

RECURSIVE walkStates(_, _, _, _)
\* the state of the walk before the first match and after each match
walkStates(t, ms, k, st) ==
  IF k > Len(ms) THEN <<st>>
  ELSE <<st>> \o walkStates(t, ms, k + 1, walkStep(t, st, ms[k]))

\* the text strictly between the cursor and the start of the match, if the
\* step emitted a PlainText span before the formatted one
TextBefore(t, m, before, after) ==
  Len(after.parts) = Len(before.parts) + 2 =>
    after.parts[Len(before.parts) + 1]
      = [type |-> "text", content |-> SubSeq(t, before.currentIndex + 1, m.index),
         url |-> <<>>]

StepAdvances(t, m, before, after) ==
  /\ after.currentIndex = m.index + m.length
  /\ after.currentIndex >= before.currentIndex
  /\ TextBefore(t, m, before, after)

WalkAdvances(t, ms, sts) ==
  \A k \in 1..Len(ms) : StepAdvances(t, ms[k], sts[k], sts[k + 1])

CursorAdvances(t, ms) ==
  WalkAdvances(t, ms, walkStates(t, ms, 1, [parts |-> <<>>, currentIndex |-> 0]))

\* C14: during the walk the cursor only advances: after each match it is just
\* past that match and not smaller than before, and a PlainText span emitted
\* before a match is the text between the previous cursor and the match
C14_CursorAdvances ==
  pc = "formatted" => CursorAdvances(content, allMatches(content))

(* ------------------------------- C15 --------------------------------- *)

\* C15: a text in which none of the four patterns finds a match is returned
\* as exactly one PlainText span equal to the text
C15_NoMatchIsPlain ==
  (pc = "formatted" /\ pooledMatches(content) = <<>>)
    => spans = <<[type |-> "text", content |-> content, url |-> <<>>]>>

\* a text with marker characters and no match
C15_Witness ==
  /\ pc = "formatted"
  /\ pooledMatches(content) = <<>>
  /\ Len(content) >= 2
  /\ \E i \in 1..Len(content) : content[i] \in MarkerChars
  /\ \E i \in 1..Len(content) : content[i] \notin MarkerChars
  /\ Len(spans) = 1

(* ------------------------------- C16 --------------------------------- *)

\* an opening *, _, backtick or [ followed by text with no marker character
OpenedSingle(s) ==
  /\ Len(s) >= 2
  /\ s[1] \in {"*", "_", Backtick, "["}
  /\ MarkerFree(Tail(s))

\* an opening ** or __ followed by text with no marker character
OpenedDouble(s) ==
  /\ Len(s) >= 3
  /\ s[1] \in {"*", "_"}
  /\ s[2] = s[1]
  /\ MarkerFree(SubSeq(s, 3, Len(s)))

\* an opening ** or __ closed only by a single * or _
ClosedByHalf(s) ==
  /\ Len(s) >= 4
  /\ s[1] \in {"*", "_"}
  /\ s[2] = s[1]
  /\ s[Len(s)] = s[1]
  /\ MarkerFree(SubSeq(s, 3, Len(s) - 1))

Unclosed(s) == OpenedSingle(s) \/ OpenedDouble(s) \/ ClosedByHalf(s)

\* C16: a text whose opening marker has no closing marker of the same kind
\* (an opening ** closed only by a single * included) yields no formatted span
\* and appears unchanged as plain text
C16_UnclosedIsPlain ==
  (pc = "formatted" /\ Unclosed(content))
    => spans = <<[type |-> "text", content |-> content, url |-> <<>>]>>

(* ------------------------------- C17 --------------------------------- *)

\* the matches of one scan loop: each is non-empty and lies within the text,
\* and each starts at or after the end of the one before
ScanProgress(t, ms) ==
  \A k \in 1..Len(ms) :
    /\ ms[k].length >= 1
    /\ ms[k].index >= 0
    /\ ms[k].index + ms[k].length <= Len(t)
    /\ k > 1 => ms[k].index >= ms[k - 1].index + ms[k - 1].length

EachScanEnds(t) ==
  \A type \in {"bold", "italic", "link", "code"} : ScanProgress(t, execAll(type, t, 0))

IsSpans(out) ==
  /\ out # <<>>
  /\ \A i \in 1..Len(out) : out[i].type \in {"text", "bold", "italic", "link", "code"}

IsNode(b) ==
  /\ b.kind \in {"null", "heading", "ul", "ol", "p"}
  /\ \A j \in 1..Len(b.spans) : IsSpans(b.spans[j])

\* C17: rendering is total: each of the four scan loops ends, because every
\* match is non-empty, lies within the text and starts at or after the end of
\* the match before it, and what the two operations return are well-formed
\* nodes and spans (a rendering, never an error value)
C17_Total ==
  /\ pc = "formatted" => (EachScanEnds(content) /\ IsSpans(spans))
  /\ pc = "rendered" => (Len(blocks) >= 1 /\ \A i \in 1..Len(blocks) : IsNode(blocks[i]))

\* a scan loop that found two matches
C17_Witness ==
  /\ pc = "formatted"
  /\ Len(execAll("italic", content, 0)) = 2
  /\ Len(spans) >= 2

(* ------------------------------- C18 --------------------------------- *)

SameOutput(l) ==
  \A i \in 1..Len(l) : \A j \in 1..Len(l) :
    (l[i].op = l[j].op /\ l[i].input = l[j].input) => l[i].out = l[j].out

ListPublished(list) == \A i \in 1..Len(list) : list[i].published

\* the article shown by the detail page, if it shows one, is a published one
DetailPublished(shown, b) == shown = "article" => (b # NoBlog /\ b.published)

\* a load that returns either sets the published article found for the id it
\* asked for, or leaves the article alone and ends in the error view
LoadOutcome(l, b, err, shown) ==
  \/ b.id = l.id /\ b.published /\ err = error
  \/ b = blog /\ shown = "error"

LoadReturns ==
  \A l \in loads :
    (loads' = loads \ {l} /\ blogId' = blogId)
      => LoadOutcome(l, blog', error', detailView(loading', error', blog'))

\* C19: the article list of the portfolio holds only posts with published =
\* true after every load and refresh, and the detail page shows an article
\* only if it was found published for the requested id; a load that finds no
\* published article ends in the error view
C19_PublishedOnly ==
  /\ [](ListPublished(blogs) /\ DetailPublished(detailView(loading, error, blog), blog))
  /\ [][LoadReturns]_vars

\* the filter dropped an unpublished post, and the detail page shows an article
C19_Witness ==
  /\ Len(blogs) = 1
  /\ \E id \in PostIds : ~db[id]
  /\ listPending = {}
  /\ detailView(loading, error, blog) = "article"

(* ------------------------------- C20 --------------------------------- *)

\* C20: the AdminDashboard is on the page only when authLoading is false,
\* isAuthenticated is true and the current path is '/admin/dashboard',
\* whatever hash changes, auth events and timers came before
C20_DashboardGuarded ==
  view = "AdminDashboard"
    => (~authLoading /\ isAuthenticated /\ currentPath = DashboardPath)

\* the dashboard is on the page while a redirect of an earlier render waits
C20_Witness ==
  /\ view = "AdminDashboard"
  /\ isAuthenticated
  /\ timers # <<>>

(* ------------------------------- C21 --------------------------------- *)

\* the 0-based positions of the text that the match covers
Covered(m) == m.index..(m.index + m.length - 1)

PairwiseDisjoint(ms) ==
  \A i \in 1..Len(ms) : \A j \in 1..Len(ms) :
    i # j => Covered(ms[i]) \cap Covered(ms[j]) = {}

\* C21: the matches collected for one and the same pattern never overlap: any
\* two bold matches, two italic, two link or two code matches of a text cover
\* disjoint ranges of its characters
C21_SamePatternDisjoint ==
  pc = "formatted" =>
    \A type \in {"bold", "italic", "link", "code"} :
      PairwiseDisjoint(execAll(type, content, 0))

\* two links and an italic match in one text
C21_Witness ==
  /\ pc = "formatted"
  /\ Len(execAll("link", content, 0)) = 2
  /\ Len(execAll("italic", content, 0)) = 1
  /\ Len(spans) = 3

(* ------------------------------- C22 --------------------------------- *)

OfType(out, type) == SelectSeq(out, LAMBDA sp : sp.type = type)

\* as many spans of the type as the pattern of the type has matches
OnePerMatch(t, out, type) == Len(OfType(out, type)) = Len(execAll(type, t, 0))

\* two matches of the pool share a character of the text
Overlapping(ms) ==
  \E i \in 1..Len(ms) : \E j \in 1..Len(ms) :
    i # j /\ Covered(ms[i]) \cap Covered(ms[j]) # {}

\* C22: every match of any of the four patterns gives exactly one formatted
\* span: the output holds as many spans of each kind as that pattern has
\* matches, so the formatted spans are as many as the matches of the pool, also
\* when matches of different patterns overlap
C22_OneSpanPerMatch ==
  pc = "formatted" =>
    /\ \A type \in {"bold", "italic", "link", "code"} : OnePerMatch(content, spans, type)
    /\ Len(SelectSeq(spans, IsFormatted)) = Len(pooledMatches(content))

\* a bold and an italic match that overlap, and a span for each
C22_Witness ==
  /\ pc = "formatted"
  /\ Overlapping(pooledMatches(content))
  /\ Len(OfType(spans, "bold")) = 1
  /\ Len(OfType(spans, "italic")) = 1

(* ------------------------------- C28 --------------------------------- *)

\* the source text of each span in output order: the content of a PlainText
\* span, and the whole matched text of the k-th formatted span, which is the
\* k-th match of the walk
RECURSIVE SourceOf(_, _, _, _, _)
SourceOf(t, out, ms, i, k) ==
  IF i > Len(out) THEN <<>>
  ELSE IF out[i].type = "text"
  THEN out[i].content \o SourceOf(t, out, ms, i + 1, k)
  ELSE SubSeq(t, ms[k].index + 1, ms[k].index + ms[k].length)
         \o SourceOf(t, out, ms, i + 1, k + 1)

\* C28: inline rendering loses and repeats nothing: the PlainText spans and
\* the matched source texts of the formatted spans, joined in output order,
\* give back exactly the input text
C28_NothingLostOrRepeated ==
  pc = "formatted" => SourceOf(content, spans, allMatches(content), 1, 1) = content

(* ------------------------------- C23 --------------------------------- *)

\* auth loading has finished on a path that starts with '/admin' and is not
\* '/admin/login', for a user who is not authenticated
NeedsLogin ==
  /\ ~authLoading
  /\ startsWith(currentPath, AdminPrefix)
  /\ currentPath # LoginPath
  /\ ~isAuthenticated

\* the login screen is shown at '/admin/login' and no redirect is pending
LoginShown ==
  /\ currentPath = LoginPath
  /\ view = "LoginScreen"
  /\ timers = <<>>

\* C23: once auth loading has finished on a path that starts with '/admin' and
\* is not '/admin/login', a user who stays unauthenticated eventually is at
\* '/admin/login' with the login screen shown, and from then on no redirect
\* is scheduled or pending
C23_RedirectToLogin ==
  []((NeedsLogin /\ []~isAuthenticated) => <>[]LoginShown)

\* the render of the dashboard address for an unauthenticated user has
\* scheduled the redirect to the login screen
C23_Witness ==
  /\ NeedsLogin
  /\ currentPath = DashboardPath
  /\ view = "RedirectingToLogin"
  /\ timers = <<LoginPath>>

(* ------------------------------- C24 --------------------------------- *)

\* auth loading has finished on '/admin/login' or another path that starts
\* with '/admin' and is not '/admin/dashboard', for an authenticated user
NeedsDashboard ==
  /\ ~authLoading
  /\ startsWith(currentPath, AdminPrefix)
  /\ currentPath # DashboardPath
  /\ isAuthenticated

\* the dashboard is rendered at '/admin/dashboard' and no redirect is pending
DashboardShown ==
  /\ currentPath = DashboardPath
  /\ view = "AdminDashboard"
  /\ timers = <<>>

\* C24: once auth loading has finished on '/admin/login' or any other path
\* that starts with '/admin' except '/admin/dashboard', a user who stays
\* authenticated eventually is at '/admin/dashboard' with the dashboard
\* rendered, and from then on no redirect is scheduled or pending
C24_RedirectToDashboard ==
  []((NeedsDashboard /\ []isAuthenticated) => <>[]DashboardShown)

\* the render of the login route for an authenticated user has scheduled the
\* redirect to the dashboard
C24_Witness ==
  /\ NeedsDashboard
  /\ currentPath = LoginPath
  /\ view = "Redirecting"
  /\ timers = <<DashboardPath>>

(* ------------------------------- C25 --------------------------------- *)

\* '/admin' itself or a path under '/admin/'
AdminPath(path) == path = AdminPrefix \/ startsWith(path, AdminPrefix \o <<"/">>)

\* '/' or an unknown path: no project or article detail path and no admin path
PublicPath(path) ==
  /\ ~detailMatch(path, ProjectPrefix)
  /\ ~detailMatch(path, ArticlePrefix)
  /\ ~AdminPath(path)

\* C25: only '/admin' and the paths under '/admin/' are admin routes: once auth
\* loading has finished, '/' and every unknown path ('/adminx' included) renders
\* the public portfolio, and its render schedules no redirect, whether the
\* user is authenticated or not
C25_OnlyAdminPathsGuarded ==
  (~authLoading /\ PublicPath(currentPath)) =>
    /\ view = "PublicPortfolio"
    /\ renderRoute(authLoading, isAuthenticated, currentPath).redirect = NoRedirect

(* ------------------------------- C26 --------------------------------- *)

\* the backend returned an error, or the call threw
BackendFailures == {"42P01", "42501", "PGRST301", "otherError", "rejects"}

\* the value that stands for a failure of the function
FailureValue(op) == IF op = "deleteProject" THEN "false" ELSE "null"

\* C26: the admin CRUD functions report a backend failure as a value: on an
\* error of the backend, or a throwing call, createProject and updateProject
\* return null and deleteProject returns false, and none of them throws to
\* its caller
C26_FailuresAsValues ==
  /\ lastCall.result.kind # "thrown"
  /\ lastCall.response \in BackendFailures
       => lastCall.result = Returned(FailureValue(lastCall.op))

(* ------------------------------- C27 --------------------------------- *)

\* the calls made, and all of them returned and committed
StartedCalls == {p \in Calls : incr[p] # "idle"}

AllCommitted == \A p \in Calls : incr[p] \in {"idle", "done"}

\* C27: when N >= 1 calls of increment_portfolio_views() have run in any
\* interleaving, from a table with a single row or with no row, the view
\* count read afterwards is the count read before plus N, and the table holds
\* exactly one row
C27_NoLostIncrement ==
  (AllCommitted /\ StartedCalls # {}) =>
    /\ getTotalPortfolioViews(analytics) = viewsBefore + Cardinality(StartedCalls)
    /\ Len(analytics) = 1

(* ------------------------------- C29 --------------------------------- *)

\* BlogDetail is mounted and every loadBlog call it made has completed
LoadsCompleted == blogId # NoBlog.id /\ requested >= 1 /\ loads = {}

\* C29: after every load of the mounted detail page has completed, in
\* whichever order, an article that the page displays is the article of the
\* current blogId: a late response for the previous blogId has not replaced it
C29_CurrentArticle ==
  (LoadsCompleted /\ detailView(loading, error, blog) = "article")
    => blog.id = blogId

(* ------------------------------- C30 --------------------------------- *)

\* C30: login converges: when onLogin has navigated to '/admin/dashboard' and
\* the auth listener has set isAuthenticated, in whichever order the
\* hashchange event, the auth event and the pending timers (those of earlier
\* renders included) are handled, a user who stays signed in eventually has
\* the AdminDashboard rendered at '/admin/dashboard' for good: the redirects
\* between '/admin/login' and '/admin/dashboard' end
C30_LoginConverges == (<>[]isAuthenticated) => <>[]DashboardShown

\* the hashchange of onLogin was handled before the auth event: the dashboard
\* address is rendered for a user not yet authenticated and a redirect back
\* to the login screen waits
C30_Witness ==
  /\ currentPath = DashboardPath
  /\ ~isAuthenticated
  /\ view = "RedirectingToLogin"
  /\ timers # <<>>
  /\ timers[Len(timers)] = LoginPath

====
